---- MODULE Spec2Model ----
(***************************************************************************)
(* Book Library API: the role gate (middleware/auth.js), the Book schema   *)
(* (models/Book.js) and the four book routes (the router whose text is in  *)
(* src/swagger.js, lines 29-274), modelled as a state machine over the     *)
(* document store, the uploads directory and the requests in flight.       *)
(* Each request walks the middleware chain of its route; every await on    *)
(* the store (find, findById, save, deleteOne) is one atomic step.         *)
(***************************************************************************)
EXTENDS Integers, Sequences, FiniteSets, TLC

VARIABLES books, nextId, uploads, req

vars == <<books, nextId, uploads, req>>

(* ---------------------------- bounds ----------------------------------- *)

\* number of ObjectIds the store can hand out
MaxIds == 2
\* number of distinct values Date.now() takes while files are uploaded
MaxTime == 1
\* number of connections, each with at most one request in flight
MaxSlots == 2

Slots == 1..MaxSlots

(* ---------------------------- values ----------------------------------- *)

\* JavaScript undefined (a body field that was not sent) and null
Undefined == "<undefined>"
Null == <<>>

Roles == {"Admin", "Author", "Reader"}
Ops == {"Create", "List", "Update", "Delete"}

\* req.params.id: 1..MaxIds stand for the well-formed 24-hex ObjectId
\* strings, 0 for a string that is not an ObjectId
ObjectIds == 1..MaxIds
PathIds == {0} \cup ObjectIds

\* The Authorization header: Null when absent, else <<token>>, the token a
\* record of the role claim, the signing secret and the expiry.
Tokens == [role : Roles, secret : {"JWT_SECRET", "other"}, expired : BOOLEAN]
Headers == {Null} \cup {<<t>> : t \in Tokens}

Titles == {"", "Dune"}
Authors == {"", "Herbert", "Asimov"}
Years == {"abc", "1965"}
FileNames == {"c.png"}
Fields == <<"title", "author", "year">>

\* req.body: an object that has a key only for the fields that were sent
FieldValues(f) ==
    IF f = "title" THEN Titles ELSE IF f = "author" THEN Authors ELSE Years
Bodies ==
    UNION {{b \in [D -> Titles \cup Authors \cup Years] :
               \A f \in D : b[f] \in FieldValues(f)} :
           D \in SUBSET {"title", "author", "year"}}

Get(body, f) == IF f \in DOMAIN body THEN body[f] ELSE Undefined

\* Number(v) for the strings Years holds
NumberOf(v) == IF v = "1965" THEN 1965 ELSE IF v = "1984" THEN 1984 ELSE -1

(* ---------------------- middleware/auth.js ----------------------------- *)

\* a verification that does not look at the expiry
JwtVerifyNoExpiry(token) == token.secret = "JWT_SECRET"

\* jwt.verify(token, process.env.JWT_SECRET): throws unless the signature
\* was made with the server's secret and the token has not expired
JwtVerify(token) == token.secret = "JWT_SECRET" /\ ~token.expired

\* authMiddleware(roles): 401, 403 or 0 (next() is called)
AuthMiddleware(roles, hdr) ==
    IF hdr = Null THEN 401
    ELSE IF ~JwtVerify(hdr[1]) THEN 401
    ELSE IF hdr[1].role \notin roles THEN 403
    ELSE 0

(* ---------------------------- routes ----------------------------------- *)

\* role lists in which DELETE is open to authors as well
AllowedRolesLax(op) ==
    CASE op = "Create" -> {"Admin", "Author"}
      [] op = "List"   -> {"Admin", "Author", "Reader"}
      [] op = "Update" -> {"Admin", "Author"}
      [] op = "Delete" -> {"Admin", "Author"}

\* the role list each route hands to authMiddleware
AllowedRoles(op) ==
    CASE op = "Create" -> {"Admin", "Author"}
      [] op = "List"   -> {"Admin", "Author", "Reader"}
      [] op = "Update" -> {"Admin", "Author"}
      [] op = "Delete" -> {"Admin"}

\* chains in which the upload is registered ahead of the role gate
RouteUploadFirst(op) ==
    CASE op = "Create" -> <<"upload", "auth", "validate", "handler">>
      [] op = "List"   -> <<"auth", "handler">>
      [] op = "Update" -> <<"upload", "auth", "validate", "handler">>
      [] op = "Delete" -> <<"auth", "handler">>

\* the middleware chain of each route, in registration order
Route(op) ==
    CASE op = "Create" -> <<"auth", "upload", "validate", "handler">>
      [] op = "List"   -> <<"auth", "handler">>
      [] op = "Update" -> <<"auth", "upload", "validate", "handler">>
      [] op = "Delete" -> <<"auth", "handler">>

\* next(): the stage after stage s on the route of op
NextStage(op, s) ==
    LET i == CHOOSE k \in 1..Len(Route(op)) : Route(op)[k] = s
    IN  Route(op)[i + 1]

(* ------------------------- validation chains --------------------------- *)

\* notEmpty(): the value, turned into a string, has length > 0
NotEmpty(v) == v # Undefined /\ v # ""
\* isNumeric(): the string is a decimal number
IsNumeric(v) == v \in {"1965", "1984"}

Rule(f, v) == IF f = "year" THEN IsNumeric(v) ELSE NotEmpty(v)

\* a validation that stops at the first failing field
ValidationErrorsFirst(op, body) ==
    LET fails(f) == IF op = "Update" /\ Get(body, f) = Undefined
                    THEN FALSE
                    ELSE ~Rule(f, Get(body, f))
    IN  SubSeq(SelectSeq(Fields, fails), 1, 1)

\* validationResult(req).array(): the failing fields, in chain order.
\* On PUT every chain is optional(): it is skipped for an undefined field.
ValidationErrors(op, body) ==
    LET fails(f) == IF op = "Update" /\ Get(body, f) = Undefined
                    THEN FALSE
                    ELSE ~Rule(f, Get(body, f))
    IN  SelectSeq(Fields, fails)

(* --------------------------- models/Book.js ---------------------------- *)

\* the schema's required validators, run by save()
SchemaValid(doc) ==
    /\ doc.title # Undefined /\ doc.title # ""
    /\ doc.author # Undefined /\ doc.author # ""
    /\ doc.coverPage # Null
    /\ doc.year # -1

\* new Book({title, author, coverPage, year}): year is cast to Number
NewBook(body, coverPage) ==
    [title |-> Get(body, "title"), author |-> Get(body, "author"),
     coverPage |-> coverPage, year |-> NumberOf(Get(body, "year"))]

(* ----------------------------- state ----------------------------------- *)

Idle ==
    [pc |-> "idle", op |-> "List", hdr |-> Null, id |-> 0, body |-> <<>>,
     attach |-> Null, file |-> Null, checked |-> FALSE, errors |-> <<>>,
     user |-> "", book |-> Null, status |-> 0, resp |-> <<>>]

Init ==
    /\ books = <<>>
    /\ nextId = 1
    /\ uploads = {}
    /\ req = [r \in Slots |-> Idle]

\* res.status(code).json(body): the request is answered and its chain ends
Answer(r, code, body) ==
    req' = [req EXCEPT ![r].pc = "done", ![r].status = code, ![r].resp = body]

(* ---------------------------- actions ---------------------------------- *)

\* the requests a client can send: route, header, path id, body, attachment
Requests ==
    UNION {[op : {op}, hdr : Headers,
            id : IF op \in {"Update", "Delete"} THEN PathIds ELSE {0},
            body : IF op \in {"Create", "Update"} THEN Bodies ELSE {<<>>},
            attach : IF op \in {"Create", "Update"}
                     THEN {Null} \cup {<<n>> : n \in FileNames}
                     ELSE {Null}] : op \in Ops}

\* the requests of the interleaved runs: an Admin creates a book with a
\* cover, renames its author, lists and deletes
AdminToken == [role |-> "Admin", secret |-> "JWT_SECRET", expired |-> FALSE]
RaceRequests ==
    {q \in Requests :
       /\ q.hdr = <<AdminToken>>
       /\ q.id # 0 \/ q.op \in {"Create", "List"}
       /\ q.op = "Create" =>
            /\ q.attach # Null
            /\ q.body = [title |-> "Dune", author |-> "Herbert", year |-> "1965"]
       /\ q.op = "Update" =>
            /\ q.attach = Null
            /\ DOMAIN q.body = {"author"} /\ q.body.author = "Asimov"}

\* the POST requests in flight; each may take an ObjectId
Creating == {q \in Slots : req[q].op = "Create" /\ req[q].pc \notin {"idle", "done"}}

\* request q arrives on connection r, the first connection that is free
Arrive(r, q) ==
    /\ \A c \in Slots : c < r => req[c].pc # "idle"
    /\ q.op = "Create" => nextId + Cardinality(Creating) <= MaxIds
    /\ req' = [req EXCEPT ![r] =
                 [Idle EXCEPT !.pc = Route(q.op)[1], !.op = q.op, !.hdr = q.hdr,
                              !.id = q.id, !.body = q.body, !.attach = q.attach]]
    /\ UNCHANGED <<books, nextId, uploads>>

\* no other request is in flight
Alone(r) == \A c \in Slots \ {r} : req[c].pc = "idle"

\* A client sends a request on one of the four book routes after the
\* request before it was answered.
Receive(r) ==
    req[r].pc = "idle" /\ Alone(r) /\ \E q \in Requests : Arrive(r, q)

\* A request of the interleaved runs arrives, whatever else is in flight.
ReceiveRace(r) ==
    req[r].pc = "idle" /\ \E q \in RaceRequests : Arrive(r, q)

\* authMiddleware(roles)
Auth(r) ==
    /\ req[r].pc = "auth"
    /\ LET code == AuthMiddleware(AllowedRoles(req[r].op), req[r].hdr)
       IN  IF code # 0
           THEN Answer(r, code, <<>>)
           ELSE req' = [req EXCEPT ![r].user = req[r].hdr[1].role,
                                   ![r].pc = NextStage(req[r].op, "auth")]
    /\ UNCHANGED <<books, nextId, uploads>>

\* upload.single('coverPage'): a file, if one is attached, is written to
\* uploads/ under the name `${Date.now()}-${file.originalname}`
Upload(r) ==
    /\ req[r].pc = "upload"
    /\ IF req[r].attach = Null
       THEN /\ req' = [req EXCEPT ![r].pc = NextStage(req[r].op, "upload")]
            /\ UNCHANGED uploads
       ELSE \E now \in 1..MaxTime :
              LET path == <<now, req[r].attach[1]>>
              IN  /\ uploads' = uploads \cup {path}
                  /\ req' = [req EXCEPT ![r].file = path,
                                        ![r].pc = NextStage(req[r].op, "upload")]
    /\ UNCHANGED <<books, nextId>>

\* the express-validator chains of the route
Validate(r) ==
    /\ req[r].pc = "validate"
    /\ req' = [req EXCEPT ![r].checked = TRUE,
                          ![r].errors = ValidationErrors(req[r].op, req[r].body),
                          ![r].pc = NextStage(req[r].op, "validate")]
    /\ UNCHANGED <<books, nextId, uploads>>


(* ------------------------- the document store -------------------------- *)

\* a lookup that ignores the id: any stored document
FindAny(store, id) ==
    IF DOMAIN store # {} THEN <<store[CHOOSE i \in DOMAIN store : TRUE]>>
    ELSE Null

\* Book.findById(id): the document, or null when there is none
FindById(store, id) == IF id \in DOMAIN store THEN <<store[id]>> ELSE Null

\* a deleteOne whose filter matches nothing
DeleteNone(store, id) == store

\* Book.deleteOne({ _id: id })
DeleteOneFrom(store, id) == [i \in DOMAIN store \ {id} |-> store[i]]

\* book.save() of a new document: it is inserted under its _id
Insert(store, id, doc) == [i \in DOMAIN store \cup {id} |->
                              IF i = id THEN doc ELSE store[i]]

\* book.save() of a fetched document: the paths whose value was changed
\* since the fetch are written to the stored document
SaveModified(store, id, fetched, doc) ==
    [store EXCEPT ![id] = [f \in DOMAIN doc |->
                              IF doc[f] # fetched[f] THEN doc[f] ELSE @[f]]]

\* an id check that accepts every string
IsValidAny(id) == TRUE

\* mongoose.Types.ObjectId.isValid(id)
IsValidObjectId(id) == id \in ObjectIds

\* v || old
OrElse(v, old) == IF v # Undefined /\ v # "" THEN v ELSE old

\* a merge that assigns the body's fields without the `|| book.x` fallback
MergeOverwrite(book, body, file) ==
    [title |-> Get(body, "title"),
     author |-> Get(body, "author"),
     year |-> NumberOf(Get(body, "year")),
     coverPage |-> IF file # Null THEN file ELSE book.coverPage]

\* the field-level merge of the PUT handler
Merge(book, body, file) ==
    [title |-> OrElse(Get(body, "title"), book.title),
     author |-> OrElse(Get(body, "author"), book.author),
     year |-> IF OrElse(Get(body, "year"), Undefined) # Undefined
              THEN NumberOf(Get(body, "year")) ELSE book.year,
     coverPage |-> IF file # Null THEN file ELSE book.coverPage]

(* ---------------------------- handlers --------------------------------- *)

\* POST /: the handler after the validation chains
CreateHandler(r) ==
    /\ req[r].pc = "handler" /\ req[r].op = "Create"
    /\ IF req[r].errors # <<>>
       THEN Answer(r, 400, <<>>) /\ UNCHANGED <<books, nextId>>
       ELSE LET book == NewBook(req[r].body, req[r].file)
            IN  IF SchemaValid(book)
                THEN /\ books' = Insert(books, nextId, book)
                     /\ nextId' = nextId + 1
                     /\ Answer(r, 201, nextId :> book)
                ELSE Answer(r, 500, <<>>) /\ UNCHANGED <<books, nextId>>
    /\ UNCHANGED uploads

\* GET /
ListHandler(r) ==
    /\ req[r].pc = "handler" /\ req[r].op = "List"
    /\ Answer(r, 200, books)
    /\ UNCHANGED <<books, nextId, uploads>>

\* PUT /:id up to the end of `await Book.findById(req.params.id)`;
\* findById rejects with a CastError for an id that is not an ObjectId
UpdateHandler(r) ==
    /\ req[r].pc = "handler" /\ req[r].op = "Update"
    /\ IF req[r].errors # <<>> THEN Answer(r, 400, <<>>)
       ELSE IF ~IsValidObjectId(req[r].id) THEN Answer(r, 500, <<>>)
       ELSE IF FindById(books, req[r].id) = Null THEN Answer(r, 404, <<>>)
       ELSE req' = [req EXCEPT ![r].book = FindById(books, req[r].id),
                               ![r].pc = "save"]
    /\ UNCHANGED <<books, nextId, uploads>>

\* PUT /:id from the merge to the end of `await book.save()`; save()
\* rejects when the schema is violated or the document is gone
UpdateSave(r) ==
    /\ req[r].pc = "save"
    /\ LET book == Merge(req[r].book[1], req[r].body, req[r].file)
       IN  IF SchemaValid(book) /\ req[r].id \in DOMAIN books
           THEN /\ books' = SaveModified(books, req[r].id, req[r].book[1], book)
                /\ Answer(r, 200, req[r].id :> book)
           ELSE Answer(r, 500, <<>>) /\ UNCHANGED books
    /\ UNCHANGED <<nextId, uploads>>

\* DELETE /:id up to the end of `await Book.findById(req.params.id)`
DeleteHandler(r) ==
    /\ req[r].pc = "handler" /\ req[r].op = "Delete"
    /\ IF ~IsValidObjectId(req[r].id) THEN Answer(r, 400, <<>>)
       ELSE IF FindById(books, req[r].id) = Null THEN Answer(r, 404, <<>>)
       ELSE req' = [req EXCEPT ![r].book = FindById(books, req[r].id),
                               ![r].pc = "deleteOne"]
    /\ UNCHANGED <<books, nextId, uploads>>

\* DELETE /:id: `await Book.deleteOne({ _id: req.params.id })` and the reply
DeleteOne(r) ==
    /\ req[r].pc = "deleteOne"
    /\ books' = DeleteOneFrom(books, req[r].id)
    /\ Answer(r, 200, <<>>)
    /\ UNCHANGED <<nextId, uploads>>

\* the response has been sent; the connection takes the next request
Finish(r) ==
    /\ req[r].pc = "done"
    /\ req' = [req EXCEPT ![r] = Idle]
    /\ UNCHANGED <<books, nextId, uploads>>

Handle(r) ==
    \/ Auth(r)
    \/ Upload(r)
    \/ Validate(r)
    \/ CreateHandler(r)
    \/ ListHandler(r)
    \/ UpdateHandler(r)
    \/ UpdateSave(r)
    \/ DeleteHandler(r)
    \/ DeleteOne(r)
    \/ Finish(r)

\* one request at a time: any request, each sent after the answer to the
\* one before it
Next == \E r \in Slots : Receive(r) \/ Handle(r)

Spec == Init /\ [][Next]_vars

\* concurrent requests: the handlers interleave at every await
RaceNext == \E r \in Slots : ReceiveRace(r) \/ Handle(r)

RaceSpec == Init /\ [][RaceNext]_vars

(* ----------------------------- properties ------------------------------ *)

Done(r) == req[r].pc = "done"

\* the request carries a token signed with the server's secret, not expired
GoodToken(r) ==
    /\ req[r].hdr # Null
    /\ req[r].hdr[1].secret = "JWT_SECRET"
    /\ ~req[r].hdr[1].expired

\* the request carries a good token whose role is in R
ByRole(r, R) == GoodToken(r) /\ req[r].hdr[1].role \in R

\* the request was answered in this step
Answered(r) == req[r].pc \notin {"idle", "done"} /\ req'[r].pc = "done"

\* the Role-Permission Matrix of the specification, section 3
Matrix(op) ==
    CASE op = "Create" -> {"Admin", "Author"}
      [] op = "List"   -> {"Admin", "Author", "Reader"}
      [] op = "Update" -> {"Admin", "Author"}
      [] op = "Delete" -> {"Admin"}

\* the fields of a POST body that break a validation rule
Violating(body) ==
    {f \in {"title", "author"} : Get(body, f) \in {Undefined, ""}}
        \cup (IF Get(body, "year") \in {"1965", "1984"} THEN {} ELSE {"year"})

\* a PUT body in which every field that was sent obeys its rule
ValidUpdate(body) ==
    /\ "title" \in DOMAIN body => body.title # ""
    /\ "author" \in DOMAIN body => body.author # ""
    /\ "year" \in DOMAIN body => body.year \in {"1965", "1984"}

\* the identifiers of the books that were created and then deleted
Deleted == {i \in ObjectIds : i < nextId /\ i \notin DOMAIN books}

\* C1: a request with a valid token of role R passes the Role Gate of
\* operation O (it is answered neither 403 nor 401) if and only if the
\* Role-Permission Matrix allows R for O.
C1_RoleGateMatchesMatrix ==
    \A r \in Slots :
      (GoodToken(r) /\ req[r].pc \notin {"idle", "auth"}) =>
        /\ req[r].status # 401
        /\ req[r].status # 403 <=> req[r].hdr[1].role \in Matrix(req[r].op)
        /\ req[r].status = 403 => Done(r)

C1_Witness ==
    \E r \in Slots :
      /\ Done(r) /\ req[r].op = "Delete" /\ ByRole(r, {"Author"})
      /\ req[r].status = 403

\* C2: on each of the four routes a request without an Authorization header,
\* or with an expired token or a token signed with another secret, is
\* answered 401, whatever its route, path, body and claimed role.
C2_BadTokenIs401 ==
    \A r \in Slots :
      (~GoodToken(r) /\ req[r].pc \notin {"idle", "auth"}) =>
        Done(r) /\ req[r].status = 401

C2_Witness ==
    \E r \in Slots :
      /\ Done(r) /\ req[r].op = "Update" /\ req[r].status = 401
      /\ req[r].hdr # Null /\ req[r].hdr[1].role = "Admin"
      /\ req[r].hdr[1].expired /\ req[r].hdr[1].secret = "JWT_SECRET"
      /\ DOMAIN req[r].body = {"title", "author", "year"}

\* C3: a request the Role Gate rejects with 401 or 403 is answered by the
\* gate itself as the first stage: no file was written for it, its
\* validation chains did not run, its handler read nothing from the store,
\* and the step that rejects it changes neither the store nor uploads/.
C3_GateRunsFirst ==
    [][\A r \in Slots :
         req'[r].status \in {401, 403} =>
           /\ req'[r].pc = "done"
           /\ req'[r].file = Null
           /\ ~req'[r].checked
           /\ req'[r].book = Null /\ req'[r].resp = <<>>
           /\ req[r].pc \in {"auth", "done"}
           /\ books' = books /\ nextId' = nextId /\ uploads' = uploads]_vars

C3_Witness ==
    \E r \in Slots :
      /\ Done(r) /\ req[r].op = "Create" /\ req[r].status = 403
      /\ req[r].attach # Null /\ req[r].file = Null /\ uploads = {}

\* C4: Create by an Admin or Author with a non-empty title, a non-empty
\* author and a numeric year and no coverPage file is answered 201 with the
\* created record, which is stored with coverPage null.
C4_CreateWithoutCover ==
    \A r \in Slots :
      ( /\ Done(r) /\ req[r].op = "Create" /\ ByRole(r, {"Admin", "Author"})
        /\ Violating(req[r].body) = {} /\ req[r].attach = Null ) =>
        /\ req[r].status = 201
        /\ \E i \in DOMAIN req[r].resp :
             /\ req[r].resp[i].coverPage = Null
             /\ i \in DOMAIN books /\ books[i] = req[r].resp[i]

\* C5: Create by a permitted role with a body that breaks a validation rule
\* is answered 400 with an error list naming every violating field, and the
\* step that answers it leaves the stored books unchanged.
C5_CreateInvalidIs400 ==
    [][\A r \in Slots :
         ( /\ Answered(r) /\ req[r].op = "Create"
           /\ ByRole(r, {"Admin", "Author"})
           /\ Violating(req[r].body) # {} ) =>
           /\ req'[r].status = 400
           /\ {req'[r].errors[k] : k \in 1..Len(req'[r].errors)}
                = Violating(req[r].body)
           /\ books' = books /\ nextId' = nextId]_vars

C5_Witness ==
    \E r \in Slots :
      /\ Done(r) /\ req[r].op = "Create" /\ req[r].status = 400
      /\ ByRole(r, {"Author"})
      /\ Violating(req[r].body) = {"title", "year"}
      /\ req[r].errors = <<"title", "year">>

\* C6 as claimed: Update by a permitted role with a valid body on an
\* identifier for which no Book exists is answered 404.
C6_UpdateMissingIs404 ==
    \A r \in Slots :
      ( /\ Done(r) /\ req[r].op = "Update" /\ ByRole(r, {"Admin", "Author"})
        /\ ValidUpdate(req[r].body) /\ req[r].id \notin DOMAIN books ) =>
        req[r].status = 404

\* C6 as amended: Update by a permitted role with a valid body on an
\* identifier for which no Book exists is answered 404 when the identifier
\* is well-formed and 500 when it is not; in both cases every stored Book is
\* left unchanged and no Book is created.
C6_UpdateMissingIs404Or500 ==
    [][\A r \in Slots :
         ( /\ Answered(r) /\ req[r].op = "Update"
           /\ ByRole(r, {"Admin", "Author"})
           /\ ValidUpdate(req[r].body) /\ req[r].id \notin DOMAIN books ) =>
           /\ req'[r].status = (IF req[r].id \in ObjectIds THEN 404 ELSE 500)
           /\ books' = books /\ nextId' = nextId]_vars

C6_Witness ==
    \E r \in Slots :
      /\ Done(r) /\ req[r].op = "Update" /\ ByRole(r, {"Author"})
      /\ ValidUpdate(req[r].body) /\ req[r].status = 404
      /\ req[r].id \in ObjectIds \ DOMAIN books /\ DOMAIN books # {}

\* C7: Update of an existing Book that supplies only author (no title, no
\* year, no file) is answered 200, sets the stored author to the supplied
\* value and changes nothing else: not the title, year, coverPage or key of
\* that Book, not any other Book; when the stored author already is the
\* supplied value, as after a first application, the store is unchanged.
C7_AuthorOnlyUpdate ==
    [][\A r \in Slots :
         ( /\ Answered(r) /\ req[r].op = "Update"
           /\ ByRole(r, {"Admin", "Author"})
           /\ DOMAIN req[r].body = {"author"} /\ req[r].body.author # ""
           /\ req[r].attach = Null /\ req[r].id \in DOMAIN books ) =>
           /\ req'[r].status = 200
           /\ DOMAIN books' = DOMAIN books
           /\ books' = [books EXCEPT ![req[r].id].author = req[r].body.author]
           /\ books[req[r].id].author = req[r].body.author => books' = books
           /\ nextId' = nextId]_vars

C7_Witness ==
    \E r \in Slots :
      /\ Done(r) /\ req[r].op = "Update" /\ req[r].status = 200
      /\ DOMAIN req[r].body = {"author"} /\ req[r].attach = Null
      /\ req[r].id \in DOMAIN books
      /\ books[req[r].id].author = "Asimov" /\ req[r].body.author = "Asimov"
      /\ req[r].book[1].author = "Herbert"
      /\ books[req[r].id].title = "Dune" /\ books[req[r].id].year = 1965
      /\ books[req[r].id].coverPage = req[r].book[1].coverPage

\* C8: Delete by an Admin with an identifier that is not well-formed is
\* answered 400, the store is not queried and no Book is removed.
C8_DeleteMalformedIs400 ==
    [][\A r \in Slots :
         ( /\ Answered(r) /\ req[r].op = "Delete" /\ ByRole(r, {"Admin"})
           /\ req[r].id \notin ObjectIds ) =>
           /\ req'[r].status = 400
           /\ req[r].pc = "handler" /\ req'[r].book = Null
           /\ books' = books]_vars

C8_Witness ==
    \E r \in Slots :
      /\ Done(r) /\ req[r].op = "Delete" /\ ByRole(r, {"Admin"})
      /\ req[r].id = 0 /\ req[r].status = 400 /\ DOMAIN books # {}

\* C9: requests being served one after the other, Delete by an Admin on the
\* identifier of an existing Book is answered 200 and removes exactly that
\* Book; a later Delete on that identifier is answered 404 and changes
\* nothing; a deleted Book never comes back and no later List includes it.
C9_DeleteTwice ==
    [][\A r \in Slots :
         /\ ( /\ req[r].pc = "handler" /\ req[r].op = "Delete"
              /\ req[r].id \in DOMAIN books ) =>
              req'[r].pc = "deleteOne" /\ books' = books
         /\ req[r].pc = "deleteOne" =>
              /\ req'[r].pc = "done" /\ req'[r].status = 200
              /\ req[r].id \in DOMAIN books
              /\ DOMAIN books' = DOMAIN books \ {req[r].id}
              /\ \A i \in DOMAIN books' : books'[i] = books[i]
         /\ ( /\ Answered(r) /\ req[r].op = "Delete" /\ ByRole(r, {"Admin"})
              /\ req[r].id \in Deleted ) =>
              req'[r].status = 404 /\ books' = books
         /\ ( /\ Answered(r) /\ req[r].op = "List"
              /\ ByRole(r, {"Admin", "Author", "Reader"}) ) =>
              /\ req'[r].status = 200
              /\ DOMAIN req'[r].resp \cap Deleted = {}
         /\ Deleted \subseteq Deleted']_vars

C9_Witness ==
    \E r \in Slots :
      /\ Done(r) /\ req[r].op = "Delete" /\ ByRole(r, {"Admin"})
      /\ req[r].id \in Deleted /\ req[r].status = 404

\* C10: under any interleaving of concurrent requests at most one Delete of
\* a given Book identifier is answered 200.
C10_OneDeleteSucceeds ==
    \A r, q \in Slots :
      ( /\ r # q /\ Done(r) /\ Done(q)
        /\ req[r].op = "Delete" /\ req[q].op = "Delete"
        /\ req[r].id = req[q].id /\ req[r].status = 200 ) =>
        req[q].status # 200

====
